---------------------------- MODULE Spec2Model ----------------------------
(***************************************************************************)
(* Model of tools/generate-camping-caravan.mjs: the one-shot generator     *)
(* that fetches a contribution calendar, buckets the daily counts into     *)
(* five levels, lays out the grid, builds the snake path and the campfire  *)
(* placements, and writes two SVG files.                                   *)
(*                                                                         *)
(* JavaScript values that the code tests ad hoc are modelled by records:   *)
(*   a value of contributionCount is [type, num] with type "number",       *)
(*   "undefined" or "null"; a day slot is [defined, contributionCount];    *)
(*   a week is [isNull, hasDays, contributionDays].                        *)
(* Sequences are 1-based here and 0-based in the source.                   *)
(***************************************************************************)
EXTENDS Integers, Sequences, FiniteSets, TLC

VARIABLES
    \* the process (module top level, gql, main)
    pc, token, netCalls, response, calendar, thrown, darkSvg, lightSvg, written, exitCode,
    \* buildThresholds / levelFor applied to a collection of counts
    counts, thresholds, levels,
    \* pickCampfires applied to a list of high-activity cells
    highCells, fires,
    \* how far a function-level run has got: "input", "built", "done"
    stage

procVars == <<pc, token, netCalls, response, calendar, thrown, darkSvg, lightSvg, written, exitCode>>
thrVars == <<counts, thresholds, levels>>
fireVars == <<highCells, fires>>
vars == <<procVars, thrVars, fireVars, stage>>

----------------------------------------------------------------------------
(* Bounds of the model *)

\* longest collection of counts handed to buildThresholds
MaxLen == 4
\* largest daily count in those collections
MaxCount == 4
\* most week-columns in a calendar
MaxW == 3
\* grid positions (in chronological order) that may hold a high-activity cell
MaxCells == 7

----------------------------------------------------------------------------
(* Program constants *)

cell == 12
gap == 3
pad == 18
Rows == 7
MaxFires == 4
DurMin == 14
DurMax == 26

----------------------------------------------------------------------------
(* JavaScript values *)

Num(n) == [type |-> "number", num |-> n]
Undefined == [type |-> "undefined", num |-> 0]
Null == [type |-> "null", num |-> 0]

\* v <= n for a number n: ToNumber(undefined) is NaN (every comparison false),
\* ToNumber(null) is 0.
JsLe(v, n) ==
    CASE v.type = "number" -> v.num <= n
      [] v.type = "null" -> 0 <= n
      [] OTHER -> FALSE

Min(a, b) == IF a <= b THEN a ELSE b
Max(a, b) == IF a >= b THEN a ELSE b

\* Math.round of the non-negative rational numer/denom: floor(x + 1/2)
Round(numer, denom) == (2 * numer + denom) \div (2 * denom)

----------------------------------------------------------------------------
(* quantile, buildThresholds, levelFor *)

RECURSIVE Insert(_, _)
Insert(s, v) ==
    IF s = <<>> THEN <<v>>
    ELSE IF v <= Head(s) THEN <<v>> \o s
    ELSE <<Head(s)>> \o Insert(Tail(s), v)

RECURSIVE SortAsc(_)
\* Array.prototype.sort((a, b) => a - b)
SortAsc(s) == IF s = <<>> THEN <<>> ELSE Insert(SortAsc(Tail(s)), Head(s))

\* quantile(sorted, q) with q = pct/100, as the numerator of a fraction over 100.
\* pos = (n-1)*q, base = floor(pos), rest = pos - base; sorted[base+1] is
\* undefined exactly when base is the last index.
\* The arithmetic is exact; the source computes in IEEE doubles, where 0.9 is
\* not representable and the 90th percentile of long lists with wide gaps can
\* round to the neighbouring integer.  Within the bounds used here both agree.
quantile(sorted, pct) ==
    LET posNum == (Len(sorted) - 1) * pct
        base == posNum \div 100
        restNum == posNum % 100
    IN  IF base + 2 > Len(sorted) THEN sorted[base + 1] * 100
        ELSE sorted[base + 1] * 100 + restNum * (sorted[base + 2] - sorted[base + 1])

IsPositive(c) == c > 0

\* buildThresholds without the "+ 1" of Math.max(prev + 1, ...)
buildThresholdsNoBump(cs) ==
    LET nz == SortAsc(SelectSeq(cs, IsPositive))
    IN  IF Len(nz) = 0 THEN <<0, 1, 2, 3>>
        ELSE LET q1 == Max(1, Round(quantile(nz, 25), 100))
                 q2 == Max(q1, Round(quantile(nz, 50), 100))
                 q3 == Max(q2, Round(quantile(nz, 75), 100))
                 q4 == Max(q3, Round(quantile(nz, 90), 100))
             IN  <<q1, q2, q3, q4>>

buildThresholds(cs) ==
    LET nz == SortAsc(SelectSeq(cs, IsPositive))
    IN  IF Len(nz) = 0 THEN <<0, 1, 2, 3>>
        ELSE LET q1 == Max(1, Round(quantile(nz, 25), 100))
                 q2 == Max(q1 + 1, Round(quantile(nz, 50), 100))
                 q3 == Max(q2 + 1, Round(quantile(nz, 75), 100))
                 q4 == Max(q3 + 1, Round(quantile(nz, 90), 100))
             IN  <<q1, q2, q3, q4>>

\* levelFor whose first test is count < 0
levelForZeroIsOne(count, t) ==
    IF JsLe(count, -1) THEN 0
    ELSE IF JsLe(count, t[1]) THEN 1
    ELSE IF JsLe(count, t[2]) THEN 2
    ELSE IF JsLe(count, t[3]) THEN 3
    ELSE 4

\* levelFor that compares with < instead of <= against the thresholds
levelForStrict(count, t) ==
    IF JsLe(count, 0) THEN 0
    ELSE IF JsLe(count, t[1] - 1) THEN 1
    ELSE IF JsLe(count, t[2] - 1) THEN 2
    ELSE IF JsLe(count, t[3] - 1) THEN 3
    ELSE 4

levelFor(count, t) ==
    IF JsLe(count, 0) THEN 0
    ELSE IF JsLe(count, t[1]) THEN 1
    ELSE IF JsLe(count, t[2]) THEN 2
    ELSE IF JsLe(count, t[3]) THEN 3
    ELSE 4

----------------------------------------------------------------------------
(* pickCampfires *)

Reverse(s) == [i \in 1..Len(s) |-> s[Len(s) + 1 - i]]

\* the loop "for (i = list.length - 1; i >= 0 && picked.length < max; i--)":
\* the most recent entries of list, newest first, until picked holds max
TakeRecent(list, room) == SubSeq(Reverse(list), 1, Min(Len(list), Max(room, 0)))

\* the same loop run from the start of the list
TakeOldest(list, room) == SubSeq(list, 1, Min(Len(list), Max(room, 0)))

RECURSIVE UniqueXY(_, _)
\* picked.filter with the Set of "x,y" keys: keeps the first cell of each position
UniqueXY(s, seen) ==
    IF s = <<>> THEN <<>>
    ELSE LET k == <<Head(s).x, Head(s).y>>
         IN  IF k \in seen THEN UniqueXY(Tail(s), seen)
             ELSE <<Head(s)>> \o UniqueXY(Tail(s), seen \cup {k})

IsLvl3(c) == c.lvl >= 3
IsLvl2(c) == c.lvl = 2

\* pickCampfires that takes the oldest cells of each tier
pickCampfiresOldest(cells, max) ==
    LET lvl3 == SelectSeq(cells, IsLvl3)
        lvl2 == SelectSeq(cells, IsLvl2)
        first == TakeOldest(lvl3, max)
        picked == first \o TakeOldest(lvl2, max - Len(first))
    IN  UniqueXY(picked, {})

pickCampfires(cells, max) ==
    LET lvl3 == SelectSeq(cells, IsLvl3)
        lvl2 == SelectSeq(cells, IsLvl2)
        first == TakeRecent(lvl3, max)
        picked == first \o TakeRecent(lvl2, max - Len(first))
    IN  UniqueXY(picked, {})

----------------------------------------------------------------------------
(* svgForTheme *)

Themes == {"dark", "light"}

\* palettes[theme].grid0 .. grid4
GridFill(theme) ==
    IF theme = "dark"
    THEN <<"#161b22", "#0e4429", "#006d32", "#26a641", "#39d353">>
    ELSE <<"#ebedf0", "#9be9a8", "#40c463", "#30a14e", "#216e39">>

Day(v) == [defined |-> TRUE, contributionCount |-> v]
AbsentDay == [defined |-> FALSE, contributionCount |-> Undefined]
Week(days) == [isNull |-> FALSE, hasDays |-> TRUE, contributionDays |-> days]
NoDaysWeek == [isNull |-> FALSE, hasDays |-> FALSE, contributionDays |-> <<>>]
NullWeek == [isNull |-> TRUE, hasDays |-> FALSE, contributionDays |-> <<>>]
Calendar(ws) == [hasWeeks |-> TRUE, weeks |-> ws]
NoWeeksCalendar == [hasWeeks |-> FALSE, weeks |-> <<>>]

\* calendar.weeks || []
weeksOf(cal) == IF cal.hasWeeks THEN cal.weeks ELSE <<>>

\* w.contributionDays || []
daysOf(w) == IF w.hasDays THEN w.contributionDays ELSE <<>>

\* days[y] for the 0-based row y: undefined past the end of the list
dayAt(w, y) == IF y + 1 <= Len(daysOf(w)) THEN daysOf(w)[y + 1] ELSE AbsentDay

IsCounted(d) == d.defined /\ d.contributionCount.type = "number"
CountOf(d) == d.contributionCount.num

RECURSIVE MapCounts(_)
MapCounts(ds) == IF ds = <<>> THEN <<>> ELSE <<CountOf(Head(ds))>> \o MapCounts(Tail(ds))

RECURSIVE collectCounts(_)
\* the numeric counts of every day record, week by week
collectCounts(ws) ==
    IF ws = <<>> THEN <<>>
    ELSE MapCounts(SelectSeq(daysOf(Head(ws)), IsCounted)) \o collectCounts(Tail(ws))

\* the grid loop visits (x, y) column by column, rows 0..6: its k-th cell
ColOf(k) == (k - 1) \div Rows
RowOf(k) == (k - 1) % Rows

\* what the grid loop computes for cell (x, y)
gridCell(ws, t, theme, x, y) ==
    LET day == dayAt(ws[x + 1], y)
        lvl == levelFor(day.contributionCount, t)
    IN  IF ~day.defined
        THEN [x |-> x, y |-> y, lvl |-> 0, fill |-> GridFill(theme)[1], title |-> FALSE]
        ELSE [x |-> x, y |-> y, lvl |-> lvl, fill |-> GridFill(theme)[lvl + 1], title |-> TRUE]

IsHigh(c) == c.title /\ c.lvl >= 2
HighCell(c) == [x |-> c.x, y |-> c.y, lvl |-> c.lvl]

RECURSIVE MapHigh(_)
MapHigh(cs) == IF cs = <<>> THEN <<>> ELSE <<HighCell(Head(cs))>> \o MapHigh(Tail(cs))

\* ys without the alternation
snakeRowsAlwaysDown(x) == <<0, 1, 2, 3, 4, 5, 6>>

\* ys: even columns top-to-bottom, odd columns bottom-to-top
snakeRows(x) == IF x % 2 = 0 THEN <<0, 1, 2, 3, 4, 5, 6>> ELSE <<6, 5, 4, 3, 2, 1, 0>>

center(i) == pad + i * (cell + gap) + cell \div 2

snakePoints(W) ==
    [k \in 1..(W * Rows) |->
        LET x == ColOf(k)
            y == snakeRows(x)[RowOf(k) + 1]
        IN  [px |-> center(x), py |-> center(y), x |-> x, y |-> y]]

\* n.toFixed(2) of an integer n: its digits, then ".00"
toFixed2(n) == <<n, 0>>

durationSec(W) == Min(DurMax, Max(DurMin, Round(W * Rows, 20)))

\* a TypeError thrown inside svgForTheme: nothing is returned
Thrown == [ok |-> FALSE, width |-> 0, rects |-> <<>>, points |-> <<>>, pathD |-> <<>>,
           dur |-> 0, tent |-> <<>>, fires |-> <<>>]

svgForTheme(cal, theme) ==
    LET ws == weeksOf(cal)
        W == Len(ws)
        t == buildThresholds(collectCounts(ws))
        rects == [k \in 1..(W * Rows) |-> gridCell(ws, t, theme, ColOf(k), RowOf(k))]
        high == MapHigh(SelectSeq(rects, IsHigh))
        points == snakePoints(W)
        picked == pickCampfires(high, MaxFires)
    IN  IF \E i \in 1..W : ws[i].isNull THEN Thrown     \* w.contributionDays of null
        ELSE IF W = 0 THEN Thrown                       \* end.px of undefined
        ELSE [ok |-> TRUE,
              width |-> pad * 2 + W * (cell + gap) - gap,
              rects |-> [k \in 1..(W * Rows) |-> [x |-> rects[k].x, y |-> rects[k].y,
                                                  fill |-> rects[k].fill,
                                                  title |-> rects[k].title]],
              points |-> points,
              pathD |-> [k \in 1..Len(points) |->
                            <<toFixed2(points[k].px), toFixed2(points[k].py)>>],
              dur |-> durationSec(W),
              tent |-> <<toFixed2(points[Len(points)].px), toFixed2(points[Len(points)].py)>>,
              fires |-> [i \in 1..Len(picked) |->
                            [cx |-> center(picked[i].x), cy |-> center(picked[i].y),
                             idx |-> i - 1]]]

----------------------------------------------------------------------------
(* Inputs *)

\* the values a day record's contributionCount takes in the sample weeks
ScenarioCounts == <<0, 1, 2, 5, 10, 10, 10>>

RECURSIVE NumDays(_)
NumDays(cs) == IF cs = <<>> THEN <<>> ELSE <<Day(Num(Head(cs)))>> \o NumDays(Tail(cs))

\* one week of each shape the remote calendar can deliver
SampleWeeks ==
    { NullWeek,                                   \* a null week entry
      NoDaysWeek,                                 \* a week without a day list
      Week(<<>>),                                 \* an empty day list
      Week(<<Day(Num(0)), Day(Num(1))>>),         \* a short week
      Week(<<AbsentDay, Day(Num(2))>>),           \* a missing slot
      Week(<<Day(Num(1)), Day(Undefined)>>),      \* a day without contributionCount
      Week(<<Day(Null), Day(Num(3))>>),           \* a day whose contributionCount is null
      Week(NumDays(ScenarioCounts)) }             \* a full week

Calendars ==
    {NoWeeksCalendar} \cup
    UNION { {Calendar(ws) : ws \in [1..n -> SampleWeeks]} : n \in 0..MaxW }

CountLists ==
    {ScenarioCounts} \cup UNION { [1..n -> 0..MaxCount] : n \in 0..MaxLen }

\* the high-activity cells the grid loop collects from the first MaxCells cells,
\* for every assignment of levels to them
HighCellLists ==
    { MapHigh(SelectSeq([k \in 1..MaxCells |->
                            [x |-> ColOf(k), y |-> RowOf(k), lvl |-> f[k], title |-> TRUE]],
                        IsHigh)) : f \in [1..MaxCells -> 1..4] }

----------------------------------------------------------------------------
(* The process: module top level, gql, main *)

NotRendered == Thrown

ProcIdle ==
    /\ pc = "idle"
    /\ token = "set"
    /\ netCalls = 0
    /\ response = "none"
    /\ calendar = NoWeeksCalendar
    /\ thrown = "none"
    /\ darkSvg = NotRendered
    /\ lightSvg = NotRendered
    /\ written = {}
    /\ exitCode = 0

ThrIdle == counts = <<>> /\ thresholds = <<>> /\ levels = <<>>
FireIdle == highCells = <<>> /\ fires = <<>>

Init ==
    /\ pc = "start"
    /\ token \in {"unset", "empty", "set"}
    /\ netCalls = 0
    /\ response = "none"
    /\ calendar = NoWeeksCalendar
    /\ thrown = "none"
    /\ darkSvg = NotRendered
    /\ lightSvg = NotRendered
    /\ written = {}
    /\ exitCode = 0
    /\ ThrIdle
    /\ FireIdle
    /\ stage = "process"

\* CheckToken with the guard dropped: the run goes on without a token
CheckTokenNoExit ==
    /\ pc = "start"
    /\ pc' = "mkdir"
    /\ UNCHANGED <<token, netCalls, response, calendar, thrown, darkSvg, lightSvg,
                   written, exitCode, thrVars, fireVars, stage>>

\* if (!TOKEN) { console.error(...); process.exit(1); }
CheckToken ==
    /\ pc = "start"
    /\ IF token \in {"unset", "empty"}
       THEN pc' = "exited" /\ exitCode' = 1
       ELSE pc' = "mkdir" /\ UNCHANGED exitCode
    /\ UNCHANGED <<token, netCalls, response, calendar, thrown, darkSvg, lightSvg,
                   written, thrVars, fireVars, stage>>

\* fs.mkdirSync(OUT_DIR, { recursive: true }): an exception here is uncaught
MakeOutDir ==
    /\ pc = "mkdir"
    /\ \E ok \in BOOLEAN :
          IF ok THEN pc' = "fetch" /\ UNCHANGED <<thrown, exitCode>>
          ELSE pc' = "exited" /\ thrown' = "mkdir" /\ exitCode' = 1
    /\ UNCHANGED <<token, netCalls, response, calendar, darkSvg, lightSvg,
                   written, thrVars, fireVars, stage>>

\* gql: await fetch(...); a network failure rejects
GqlFetch ==
    /\ pc = "fetch"
    /\ netCalls' = netCalls + 1
    /\ \E arrived \in BOOLEAN :
          IF arrived THEN pc' = "parse" /\ response' = "received" /\ UNCHANGED thrown
          ELSE pc' = "rejected" /\ response' = "networkError" /\ thrown' = "fetch failed"
    /\ UNCHANGED <<token, calendar, darkSvg, lightSvg, written, exitCode,
                   thrVars, fireVars, stage>>

\* GqlCheck that does not look at json.errors: the data is used all the same
GqlCheckIgnoreErrors ==
    /\ pc = "parse"
    /\ \E r \in {"ok", "noUser", "httpError", "gqlErrors", "badJson"} :
          /\ response' = r
          /\ CASE r \in {"ok", "gqlErrors"} ->
                    /\ \E cal \in Calendars : calendar' = cal
                    /\ pc' = "renderDark"
                    /\ UNCHANGED thrown
               [] r = "noUser" ->
                    pc' = "rejected" /\ thrown' = "TypeError" /\ UNCHANGED calendar
               [] r = "badJson" ->
                    pc' = "rejected" /\ thrown' = "SyntaxError" /\ UNCHANGED calendar
               [] OTHER ->
                    pc' = "rejected" /\ thrown' = "GitHub GraphQL query failed"
                    /\ UNCHANGED calendar
    /\ UNCHANGED <<token, netCalls, darkSvg, lightSvg, written, exitCode,
                   thrVars, fireVars, stage>>

\* gql: await res.json(); if (!res.ok || json.errors) throw; return json.data;
\* then main reads data.user.contributionsCollection.contributionCalendar
GqlCheck ==
    /\ pc = "parse"
    /\ \E r \in {"ok", "noUser", "httpError", "gqlErrors", "badJson"} :
          /\ response' = r
          /\ CASE r = "ok" ->
                    /\ \E cal \in Calendars : calendar' = cal
                    /\ pc' = "renderDark"
                    /\ UNCHANGED thrown
               [] r = "noUser" ->
                    pc' = "rejected" /\ thrown' = "TypeError" /\ UNCHANGED calendar
               [] r = "badJson" ->
                    pc' = "rejected" /\ thrown' = "SyntaxError" /\ UNCHANGED calendar
               [] OTHER ->
                    pc' = "rejected" /\ thrown' = "GitHub GraphQL query failed"
                    /\ UNCHANGED calendar
    /\ UNCHANGED <<token, netCalls, darkSvg, lightSvg, written, exitCode,
                   thrVars, fireVars, stage>>

\* const darkSvg = svgForTheme(calendar, "dark");
RenderDark ==
    /\ pc = "renderDark"
    /\ darkSvg' = svgForTheme(calendar, "dark")
    /\ IF darkSvg'.ok THEN pc' = "renderLight" /\ UNCHANGED thrown
       ELSE pc' = "rejected" /\ thrown' = "TypeError"
    /\ UNCHANGED <<token, netCalls, response, calendar, lightSvg, written, exitCode,
                   thrVars, fireVars, stage>>

\* const lightSvg = svgForTheme(calendar, "light");
RenderLight ==
    /\ pc = "renderLight"
    /\ lightSvg' = svgForTheme(calendar, "light")
    /\ IF lightSvg'.ok THEN pc' = "writeDark" /\ UNCHANGED thrown
       ELSE pc' = "rejected" /\ thrown' = "TypeError"
    /\ UNCHANGED <<token, netCalls, response, calendar, darkSvg, written, exitCode,
                   thrVars, fireVars, stage>>

\* fs.writeFileSync(..."camping-caravan-dark.svg", darkSvg, "utf8")
WriteDark ==
    /\ pc = "writeDark"
    /\ \E ok \in BOOLEAN :
          IF ok THEN pc' = "writeLight" /\ written' = written \cup {"dark"}
                     /\ UNCHANGED thrown
          ELSE pc' = "rejected" /\ thrown' = "write failed" /\ UNCHANGED written
    /\ UNCHANGED <<token, netCalls, response, calendar, darkSvg, lightSvg, exitCode,
                   thrVars, fireVars, stage>>

\* fs.writeFileSync(..."camping-caravan-light.svg", lightSvg, "utf8")
WriteLight ==
    /\ pc = "writeLight"
    /\ \E ok \in BOOLEAN :
          IF ok THEN pc' = "log" /\ written' = written \cup {"light"}
                     /\ UNCHANGED thrown
          ELSE pc' = "rejected" /\ thrown' = "write failed" /\ UNCHANGED written
    /\ UNCHANGED <<token, netCalls, response, calendar, darkSvg, lightSvg, exitCode,
                   thrVars, fireVars, stage>>

\* console.log("Generated SVGs: ..."); main resolves and the process ends
Finish ==
    /\ pc = "log"
    /\ pc' = "exited"
    /\ exitCode' = 0
    /\ UNCHANGED <<token, netCalls, response, calendar, thrown, darkSvg, lightSvg,
                   written, thrVars, fireVars, stage>>

\* main().catch((e) => { console.error(e); process.exit(1); })
CatchExit ==
    /\ pc = "rejected"
    /\ pc' = "exited"
    /\ exitCode' = 1
    /\ UNCHANGED <<token, netCalls, response, calendar, thrown, darkSvg, lightSvg,
                   written, thrVars, fireVars, stage>>

Next ==
    \/ CheckToken
    \/ MakeOutDir
    \/ GqlFetch
    \/ GqlCheck
    \/ RenderDark
    \/ RenderLight
    \/ WriteDark
    \/ WriteLight
    \/ Finish
    \/ CatchExit

Spec == Init /\ [][Next]_vars

----------------------------------------------------------------------------
(* buildThresholds and levelFor on a collection of counts *)

InitThresholds ==
    /\ ProcIdle
    /\ FireIdle
    /\ counts \in CountLists
    /\ thresholds = <<>>
    /\ levels = <<>>
    /\ stage = "input"

\* const thresholds = buildThresholds(counts);
BuildThresholds ==
    /\ stage = "input"
    /\ thresholds' = buildThresholds(counts)
    /\ stage' = "built"
    /\ UNCHANGED <<procVars, fireVars, counts, levels>>

\* const lvl = levelFor(day.contributionCount, thresholds), for every count
Classify ==
    /\ stage = "built"
    /\ levels' = [i \in 1..Len(counts) |-> levelFor(Num(counts[i]), thresholds)]
    /\ stage' = "done"
    /\ UNCHANGED <<procVars, fireVars, counts, thresholds>>

NextThresholds ==
    \/ BuildThresholds
    \/ Classify

SpecThresholds == InitThresholds /\ [][NextThresholds]_vars

----------------------------------------------------------------------------
(* pickCampfires on a list of high-activity cells *)

InitCampfires ==
    /\ ProcIdle
    /\ ThrIdle
    /\ highCells \in HighCellLists
    /\ fires = <<>>
    /\ stage = "input"

\* pickCampfires(highCells, 4)
PickCampfires ==
    /\ stage = "input"
    /\ fires' = pickCampfires(highCells, MaxFires)
    /\ stage' = "done"
    /\ UNCHANGED <<procVars, thrVars, highCells>>

NextCampfires == PickCampfires

SpecCampfires == InitCampfires /\ [][NextCampfires]_vars

----------------------------------------------------------------------------
(* Properties of buildThresholds and levelFor (SpecThresholds) *)

NoPositiveCount == \A i \in 1..Len(counts) : counts[i] = 0
Built == stage \in {"built", "done"}

\* C1: for a collection with no strictly positive count (empty or all zeros),
\* buildThresholds returns exactly the fallback thresholds (1, 2, 3, 4).
C1_FallbackIsOneToFour ==
    (Built /\ NoPositiveCount) => thresholds = <<1, 2, 3, 4>>

\* C2: for every collection of non-negative counts the four thresholds
\* returned by buildThresholds satisfy t0 < t1 < t2 < t3.
C2_StrictlyIncreasing ==
    Built => /\ Len(thresholds) = 4
             /\ thresholds[1] < thresholds[2]
             /\ thresholds[2] < thresholds[3]
             /\ thresholds[3] < thresholds[4]

\* several equal positive counts: every quantile is the same value, so the
\* order rests on the bumps alone
C2_Witness ==
    /\ Built
    /\ Len(counts) >= 3
    /\ \A i \in 1..Len(counts) : counts[i] = counts[1] /\ counts[1] > 0

\* C3: for thresholds t produced by buildThresholds and every non-negative
\* count, levelFor(count, t) is a level in 0..4, levelFor(0, t) = 0, and
\* a <= b implies levelFor(a, t) <= levelFor(b, t); the same holds of the
\* levels computed for the counts themselves.
C3_LevelForTotalMonotonic ==
    /\ Built =>
          LET probe == 0..(thresholds[4] + 1)
          IN  /\ levelFor(Num(0), thresholds) = 0
              /\ \A a \in probe : levelFor(Num(a), thresholds) \in 0..4
              /\ \A a, b \in probe :
                    a <= b => levelFor(Num(a), thresholds) <= levelFor(Num(b), thresholds)
    /\ stage = "done" =>
          /\ Len(levels) = Len(counts)
          /\ \A i \in 1..Len(counts) :
                /\ levels[i] \in 0..4
                /\ counts[i] = 0 => levels[i] = 0
          /\ \A i, j \in 1..Len(counts) : counts[i] <= counts[j] => levels[i] <= levels[j]

\* a classified collection that holds a zero and reaches the top level
C3_Witness ==
    /\ stage = "done"
    /\ \E i, j \in 1..Len(counts) : counts[i] = 0 /\ levels[i] = 0 /\ levels[j] = 4

\* C6 as claimed: in the week [0,1,2,5,10,10,10] every day with count 10 is
\* classified as level 4.
C6_TenIsLevelFour ==
    (stage = "done" /\ counts = ScenarioCounts) =>
        \A i \in 1..Len(counts) : counts[i] = 10 => levels[i] = 4

\* C6 amended: in the week [0,1,2,5,10,10,10] the thresholds are (3, 8, 10, 11)
\* and every day with count 10 is classified as level 3 (10 equals t2, and
\* levelFor returns 4 only above t2).
C6_TenIsLevelThree ==
    /\ (Built /\ counts = ScenarioCounts) => thresholds = <<3, 8, 10, 11>>
    /\ (stage = "done" /\ counts = ScenarioCounts) =>
          /\ levels = <<0, 1, 1, 2, 3, 3, 3>>
          /\ \A i \in 1..Len(counts) : counts[i] = 10 => levels[i] = 3

C6_Witness ==
    /\ stage = "done"
    /\ counts = ScenarioCounts
    /\ \E i \in 1..Len(counts) : counts[i] = 10

----------------------------------------------------------------------------
(* Properties of svgForTheme and of the process (Spec) *)

\* svgForTheme(calendar, "dark") has been called
DarkAttempted == response = "ok" /\ pc # "renderDark"

NumWeeks == Len(weeksOf(calendar))

Abs(n) == IF n < 0 THEN -n ELSE n

\* C4: for a calendar of W >= 1 week-columns the snake path has exactly W*7
\* points, visits every cell (column 0..W-1, row 0..6) exactly once, runs
\* even columns top-to-bottom and odd columns bottom-to-top, and two
\* consecutive points differ by exactly one row step or one column step.
C4_SnakePath ==
    (DarkAttempted /\ darkSvg.ok) =>
        LET pts == darkSvg.points
            W == NumWeeks
        IN  /\ W >= 1
            /\ Len(pts) = W * 7
            /\ Len(darkSvg.pathD) = W * 7
            /\ \A x \in 0..(W - 1), y \in 0..6 :
                  Cardinality({k \in 1..Len(pts) : pts[k].x = x /\ pts[k].y = y}) = 1
            /\ \A k \in 1..Len(pts) :
                  /\ pts[k].x = (k - 1) \div 7
                  /\ pts[k].y = IF pts[k].x % 2 = 0 THEN (k - 1) % 7 ELSE 6 - ((k - 1) % 7)
            /\ \A k \in 1..(Len(pts) - 1) :
                  /\ Abs(pts[k + 1].x - pts[k].x) + Abs(pts[k + 1].y - pts[k].y) = 1
                  /\ Abs(pts[k + 1].px - pts[k].px) + Abs(pts[k + 1].py - pts[k].py) = cell + gap

\* a rendered calendar of at least three columns: the path turns twice
C4_Witness ==
    /\ DarkAttempted
    /\ darkSvg.ok
    /\ NumWeeks >= 3
    /\ Len(darkSvg.points) = NumWeeks * 7

\* C5: for a calendar of W = 0 weeks the path builder substitutes a fallback
\* loop of at least 2 points and rendering completes without an error.
C5_EmptyGridFallback ==
    (DarkAttempted /\ NumWeeks = 0) =>
        /\ darkSvg.ok
        /\ Len(darkSvg.points) >= 2
        /\ thrown = "none"

\* C7: when GITHUB_TOKEN is not configured the run ends with exit status 1
\* and no network request is issued: the process never gets past the check.
C7_MissingTokenExits ==
    token \in {"unset", "empty"} =>
        /\ netCalls = 0
        /\ response = "none"
        /\ written = {}
        /\ pc \in {"start", "exited"}
        /\ pc = "exited" => exitCode = 1

C7_Witness ==
    /\ token = "unset"
    /\ pc = "exited"
    /\ exitCode = 1

\* C8: when the fetch fails (non-success status, or application-level errors)
\* the process ends with a non-zero exit status, no request is repeated and
\* neither SVG file is written; exit status 0 happens only after both files
\* have been written.
C8_FetchFailureIsFatal ==
    /\ netCalls <= 1
    /\ response \in {"httpError", "gqlErrors"} =>
          /\ written = {}
          /\ thrown = "GitHub GraphQL query failed"
          /\ pc \in {"rejected", "exited"}
          /\ pc = "exited" => exitCode = 1
    /\ (pc = "exited" /\ exitCode = 0) => written = {"dark", "light"}

C8_Witness ==
    /\ response = "gqlErrors"
    /\ pc = "exited"
    /\ exitCode = 1
    /\ netCalls = 1

\* the cell (x, y) of the grid has no usable day record
MalformedCell(x, y) ==
    LET w == weeksOf(calendar)[x + 1]
    IN  \/ w.isNull
        \/ ~dayAt(w, y).defined
        \/ dayAt(w, y).contributionCount.type # "number"

\* C9: for a calendar in which a day or week entry is absent or incomplete
\* (missing slot, short week, null week, week without a day list, day without
\* a numeric contributionCount) svgForTheme completes without an error and
\* renders that cell with the level-0 fill.
C9_MalformedIsPlaceholder ==
    (DarkAttempted /\ NumWeeks >= 1) =>
        \A x \in 0..(NumWeeks - 1), y \in 0..6 :
            MalformedCell(x, y) =>
                /\ darkSvg.ok
                /\ darkSvg.rects[x * 7 + y + 1].fill = GridFill("dark")[1]

----------------------------------------------------------------------------
(* Properties of pickCampfires (SpecCampfires) *)

\* the index in highCells of the cell at c's grid position
PosIndex(c) == CHOOSE i \in 1..Len(highCells) : highCells[i].x = c.x /\ highCells[i].y = c.y

TopTier == {i \in 1..Len(highCells) : highCells[i].lvl >= 3}
NextTier == {i \in 1..Len(highCells) : highCells[i].lvl = 2}

\* C10: pickCampfires(cells, 4) returns at most 4 cells of the list, no two at
\* the same grid position: the most recent top-tier cells (level >= 3) first,
\* newest first, and level-2 cells only when fewer than 4 top-tier cells
\* exist, in which case the most recent level-2 cells fill the remainder.
C10_Campfires ==
    stage = "done" =>
        LET nTop == Min(4, Cardinality(TopTier))
            nTwo == Min(4 - nTop, Cardinality(NextTier))
        IN  /\ Len(fires) <= 4
            /\ \A j \in 1..Len(fires) : \E i \in 1..Len(highCells) : highCells[i] = fires[j]
            /\ \A i, j \in 1..Len(fires) :
                  i # j => <<fires[i].x, fires[i].y>> # <<fires[j].x, fires[j].y>>
            /\ Len(fires) = nTop + nTwo
            /\ \A j \in 1..nTop :
                  /\ PosIndex(fires[j]) \in TopTier
                  /\ Cardinality({i \in TopTier : i > PosIndex(fires[j])}) = j - 1
            /\ \A j \in 1..nTwo :
                  /\ PosIndex(fires[nTop + j]) \in NextTier
                  /\ Cardinality({i \in NextTier : i > PosIndex(fires[nTop + j])}) = j - 1
            /\ (\E j \in 1..Len(fires) : fires[j].lvl = 2) => Cardinality(TopTier) < 4

\* three top-tier cells and more level-2 cells than the room that is left
C10_Witness ==
    /\ stage = "done"
    /\ Cardinality(TopTier) = 3
    /\ Cardinality(NextTier) >= 2
    /\ Len(fires) = 4
    /\ fires[4].lvl = 2

=============================================================================
